---- MODULE Spec2Model ----
(***************************************************************************)
(* Model of ocr_data_processor.py: one run of the pipeline                 *)
(*   prepare_data -> create_batch_file -> create_batch -> polling          *)
(*   (wait_for_batch_completion under tenacity's @retry) -> the status     *)
(*   test of __main__ -> process_responses.                                *)
(* Time is an integer number of seconds on the monotonic clock that        *)
(* tenacity reads; the provider and the transport are nondeterministic.    *)
(***************************************************************************)
EXTENDS Integers, Sequences, FiniteSets, TLC

(* ---------------- bounds of the model ---------------- *)

\* a status query may take SlowQuery seconds instead of none
SlowQuery == 1553
\* at most MaxSlow status queries of one run are slow
MaxSlow == 1
\* most records of the input mapping
MaxRecords == 2

(* ---------------- input universes ---------------- *)

\* record ids: one with a letter and one made of digits only
Ids == {"a", "41442"}
Texts == {"t1", "t2"}
Models == {"gpt-3.5-turbo", "m"}
Prompts == {"P"}
FileIds == {"file-1"}
BatchIds == {"batch_1"}

(* ---------------- program constants ---------------- *)

\* wait_exponential(multiplier=1, max=1800), exp_base left at its default
multiplier == 1
exp_base == 2
max_wait == 1800
\* stop_after_delay(86400)
max_delay == 86400

Min(a, b) == IF a <= b THEN a ELSE b

Range(s) == {s[i] : i \in DOMAIN s}

\* the name a Python variable has before its first assignment
Unbound == [unbound |-> TRUE]
IsBound(v) == "unbound" \notin DOMAIN v

NoError == "none"

(* ---------------- Request Formatter ---------------- *)

\* a body whose two messages stand in the other order
RequestBodySwapped(mdl, prompt, x) ==
    [model |-> mdl,
     messages |-> << [role |-> "user", content |-> x],
                     [role |-> "system", content |-> prompt] >>]

\* the body built by the lambda of prepare_data for the text x
RequestBody(mdl, prompt, x) ==
    [model |-> mdl,
     messages |-> << [role |-> "system", content |-> prompt],
                     [role |-> "user", content |-> x] >>]

\* a formatter that gives every row the key of the first item
prepare_data_first_key(data, prompt, mdl) ==
    [i \in DOMAIN data |->
        [custom_id |-> data[1].id,
         method |-> "POST",
         url |-> "/v1/chat/completions",
         body |-> [model |-> mdl,
                   messages |-> << [role |-> "system", content |-> prompt],
                                   [role |-> "user", content |-> data[i].text] >>]]]

\* prepare_data: one row per item of the dict, in the dict's order; the
\* 'ocr' column is dropped from the result
prepare_data(data, prompt, mdl) ==
    [i \in DOMAIN data |->
        [custom_id |-> data[i].id,
         method |-> "POST",
         url |-> "/v1/chat/completions",
         body |-> RequestBody(mdl, prompt, data[i].text)]]

(* ---------------- JSON values ---------------- *)

\* a JSON / Python scalar with its type: the string "7" is not the number 7
JStr(s) == [t |-> "str", v |-> s]
JInt(d) == [t |-> "int", v |-> d]

\* DataFrame.to_json(orient='records', lines=True): one JSON object per row;
\* a Python str is written as a JSON string
to_json(df) ==
    [i \in DOMAIN df |->
        [custom_id |-> JStr(df[i].custom_id),
         method |-> JStr(df[i].method),
         url |-> JStr(df[i].url),
         body |-> df[i].body]]

\* the input mappings: Python dicts keep insertion order and have distinct keys
OcrData ==
    {d \in UNION {[1..n -> [id : Ids, text : Texts]] : n \in 1..MaxRecords} :
        \A i, j \in DOMAIN d : i # j => d[i].id # d[j].id}

(* ---------------- tenacity's @retry of lines 72-74 ---------------- *)

\* the statuses a Batch Job reports
Statuses == {"validating", "in_progress", "completed", "failed"}

\* a status test that also takes 'in_progress' for an end
is_terminal_loose(status) == status \in {"completed", "failed", "in_progress"}

\* line 78: batch_details['status'] in ['completed', 'failed']
is_terminal(status) == status \in {"completed", "failed"}

\* a retry condition that covers every exception
retry_if_any_exception(exc) == TRUE

\* retry=retry_if_exception_type(BatchNotReadyException)
retry_if_exception_type(exc) == exc = "BatchNotReadyException"

\* a stop condition with twice the budget
stop_after_delay_double(seconds_since_start) ==
    seconds_since_start >= 2 * max_delay

\* a stop condition that leaves out the moment the budget is spent exactly
stop_after_delay_strict(seconds_since_start) == seconds_since_start > max_delay

\* a stop condition that lets one more ceiling wait pass
stop_after_delay_late(seconds_since_start) ==
    seconds_since_start > max_delay + max_wait

\* stop=stop_after_delay(86400): true once that much time has passed between
\* the start of the call and the end of the last attempt
stop_after_delay(seconds_since_start) == seconds_since_start >= max_delay

\* exp_base ** k as far as it matters below max_wait (Python integers do not
\* overflow; the power is not computed further once it has passed max_wait)
RECURSIVE PowerFrom(_, _)
PowerFrom(k, acc) ==
    IF k = 0 \/ acc > max_wait THEN acc ELSE PowerFrom(k - 1, exp_base * acc)

Power(k) == PowerFrom(k, 1)

\* a wait that starts at exp_base ** 1
wait_exponential_from_two(n) == Min(multiplier * Power(n), max_wait)

\* wait=wait_exponential(multiplier=1, max=1800), min left at 0: the wait
\* after attempt number n
wait_exponential(n) == Min(multiplier * Power(n - 1), max_wait)

\* no outcome yet / the outcome of an attempt
NoOutcome == [kind |-> "none"]
Result(details) == [kind |-> "result", details |-> details]
Raised(exc) == [kind |-> "exception", exc |-> exc]

\* what the transport and the provider can answer to GET /v1/batches/{id}:
\* requests.get raises, or a JSON body comes back; an error body (as with a
\* rejected credential) has no 'status' key
Replies(id) ==
    {[kind |-> "raise", exc |-> "ConnectionError"]}
    \cup {[kind |-> "body", body |-> [error |-> "rejected"]]}
    \cup {[kind |-> "body",
           body |-> [id |-> id, status |-> s,
                     output_file_id |-> IF s = "completed" THEN "file-out"
                                        ELSE "None"]] : s \in Statuses}

NoReply == [kind |-> "none"]

\* the body of wait_for_batch_completion, lines 76-82, on what
\* get_batch_details gets: the outcome of one attempt
attempt(reply) ==
    IF reply.kind = "raise" THEN Raised(reply.exc)
    ELSE IF "status" \notin DOMAIN reply.body THEN Raised("KeyError")
    ELSE IF is_terminal(reply.body.status) THEN Result(reply.body)
    ELSE Raised("BatchNotReadyException")

\* the status a reply reports, if it reports one
StatusOf(reply) ==
    IF reply.kind = "body" /\ "status" \in DOMAIN reply.body
    THEN {reply.body.status} ELSE {}

(* ---------------- Result Assembler ---------------- *)

\* message contents the model can produce
Contents == {"{\"x\":1}", "{x:1,}", "{\"x\":2}", "no json"}

PyDict(text) == [t |-> "dict", v |-> text]

\* json_repair.loads, line 90: valid JSON is parsed, near-valid JSON is
\* repaired, and text with no JSON in it gives the empty string; a parsed
\* object is written here as its canonical text
json_repair_loads(x) ==
    CASE x = "{\"x\":1}" -> PyDict("{\"x\":1}")
      [] x = "{x:1,}" -> PyDict("{\"x\":1}")
      [] x = "{\"x\":2}" -> PyDict("{\"x\":2}")
      [] OTHER -> JStr("")

\* the 'response' of an output line: a chat completion with one choice, or
\* a body that has no 'choices'
Responses ==
    {[body |-> [choices |-> << [message |-> [content |-> c]] >>]] : c \in Contents}
    \cup {[body |-> [error |-> "failed request"]]}

HasContent(x) == "choices" \in DOMAIN x.body

\* the lambda of line 89: x['body']['choices'][0]['message']['content']
message_content(x) ==
    IF HasContent(x) THEN Result(x.body.choices[1].message.content)
    ELSE Raised("KeyError")

\* the strings that float() accepts, with the integer they stand for
Numeric == {"41442"}
IntOf(s) == s

\* pd.read_json(lines=True) with dtype left at True, line 88, on the
\* custom_id column: a column of strings that all read as numbers becomes a
\* column of numbers
read_json_column(col) ==
    IF \A i \in DOMAIN col : col[i].t = "str" /\ col[i].v \in Numeric
    THEN [i \in DOMAIN col |-> JInt(IntOf(col[i].v))]
    ELSE col

\* df[['custom_id','json']].set_index('custom_id')['json'].to_dict(), line
\* 92: the last row of a key wins
to_dict(keys, values) ==
    [k \in Range(keys) |->
        values[CHOOSE i \in DOMAIN keys :
                  /\ keys[i] = k
                  /\ \A j \in DOMAIN keys : keys[j] = k => j <= i]]

\* process_responses, lines 88-92, on the lines of the downloaded file
process_responses(lines) ==
    IF \E i \in DOMAIN lines : message_content(lines[i].response).kind = "exception"
    THEN Raised("KeyError")
    ELSE Result(to_dict(read_json_column([i \in DOMAIN lines |-> lines[i].custom_id]),
                        [i \in DOMAIN lines |->
                           json_repair_loads(message_content(lines[i].response).details)]))

Orders(n) == {p \in [1..n -> 1..n] : \A i, j \in 1..n : i # j => p[i] # p[j]}

\* the output files the provider can hold for a batch file: one line per
\* request, in any order, the custom_id as it stands in the batch file
OutputFiles(file) ==
    {[i \in DOMAIN file |-> [custom_id |-> file[p[i]].custom_id, response |-> r[i]]] :
        p \in Orders(Len(file)), r \in [DOMAIN file -> Responses]}

VARIABLES
    ocr_data, model, system_prompt,   \* the processor's fields
    pc,                               \* position in __main__
    df, batch_file,                   \* the requests; the payload file written
    oai_file_id, uploads,             \* client.files.create
    post_data, creates, status_code, batch,   \* _create_batch
    poll_pc, batch_id,                \* the retrying call and its argument
    attempt_number, clock, idle_for, upcoming_sleep,  \* tenacity's retry state
    reply, outcome, reported,         \* last answer, its outcome; statuses seen
    queries, queried, waits, slow,    \* status queries made, their ids, sleeps
    batch_details, caught,            \* __main__'s variable; exception in 'except'
    process_calls, output_file, results,   \* process_responses; the mapping printed
    error                             \* exception that ended the run

main_vars == << ocr_data, model, system_prompt >>
submit_vars == << df, batch_file, oai_file_id, uploads, post_data, creates,
                  status_code, batch >>
poll_vars == << poll_pc, batch_id, attempt_number, clock, idle_for,
                upcoming_sleep, reply, outcome, reported, queries, queried,
                waits, slow >>
tail_vars == << batch_details, caught, process_calls, output_file, results >>

vars == << ocr_data, model, system_prompt, pc, df, batch_file,
           oai_file_id, uploads, post_data, creates, status_code, batch,
           poll_pc, batch_id, attempt_number, clock, idle_for, upcoming_sleep,
           reply, outcome, reported, queries, queried, waits, slow,
           batch_details, caught, process_calls, output_file, results, error >>

Init ==
    /\ ocr_data \in OcrData
    /\ model \in Models
    /\ system_prompt \in Prompts
    /\ pc = "prepare_data"
    /\ df = << >>
    /\ batch_file = Unbound
    /\ oai_file_id = ""
    /\ uploads = 0
    /\ post_data = Unbound
    /\ creates = 0
    /\ status_code = 0
    /\ batch = Unbound
    /\ poll_pc = "idle"
    /\ batch_id = ""
    /\ attempt_number = 0
    /\ clock = 0
    /\ idle_for = 0
    /\ upcoming_sleep = 0
    /\ reply = NoReply
    /\ outcome = NoOutcome
    /\ reported = {}
    /\ queries = 0
    /\ queried = {}
    /\ waits = 0
    /\ slow = 0
    /\ batch_details = Unbound
    /\ caught = NoError
    /\ process_calls = 0
    /\ output_file = << >>
    /\ results = Unbound
    /\ error = NoError

(* ---------------- __main__, lines 132-135: submission ---------------- *)

\* line 133
PrepareData ==
    /\ pc = "prepare_data"
    /\ df' = prepare_data(ocr_data, system_prompt, model)
    /\ pc' = "create_batch_file"
    /\ UNCHANGED << main_vars, batch_file, oai_file_id, uploads, post_data,
                    creates, status_code, batch, poll_vars, tail_vars, error >>

\* line 134: create_batch_file writes the payload file
CreateBatchFile ==
    /\ pc = "create_batch_file"
    /\ batch_file' = [lines |-> to_json(df)]
    /\ pc' = "upload"
    /\ UNCHANGED << main_vars, df, oai_file_id, uploads, post_data, creates,
                    status_code, batch, poll_vars, tail_vars, error >>

\* line 135, create_batch line 43: the upload returns a file id
UploadOk ==
    /\ pc = "upload"
    /\ \E f \in FileIds : oai_file_id' = f
    /\ uploads' = uploads + 1
    /\ pc' = "create"
    /\ UNCHANGED << main_vars, df, batch_file, post_data, creates,
                    status_code, batch, poll_vars, tail_vars, error >>

\* line 43: the upload raises; nothing in __main__ catches it
UploadRaises ==
    /\ pc = "upload"
    /\ uploads' = uploads + 1
    /\ error' = "APIError"
    /\ pc' = "crashed"
    /\ UNCHANGED << main_vars, df, batch_file, oai_file_id, post_data,
                    creates, status_code, batch, poll_vars, tail_vars >>

\* a POST that names a fixed file instead of the one just uploaded
create_data_fixed_file(input_file_id) ==
    [input_file_id |-> "file-0",
     endpoint |-> "/v1/chat/completions",
     completion_window |-> "24h"]

\* the data _create_batch posts, lines 53-57
create_data(input_file_id) ==
    [input_file_id |-> input_file_id,
     endpoint |-> "/v1/chat/completions",
     completion_window |-> "24h"]

\* what the provider answers to the POST: a status code and a JSON body
CreateResponses ==
    {[status_code |-> 200, body |-> [id |-> b, status |-> "validating"]] :
        b \in BatchIds}
    \cup {[status_code |-> c, body |-> [error |-> "rejected"]] : c \in {400, 401}}

\* what _create_batch returns for a response, line 60
create_batch_result(response) == response.body

\* lines 45, 47-60: the POST is answered; the body is returned whatever the
\* status code
CreateBatchPost ==
    /\ pc = "create"
    /\ post_data' = create_data(oai_file_id)
    /\ creates' = creates + 1
    /\ \E r \in CreateResponses :
          /\ status_code' = r.status_code
          /\ batch' = create_batch_result(r)
    /\ pc' = "try"
    /\ UNCHANGED << main_vars, df, batch_file, oai_file_id, uploads,
                    poll_vars, tail_vars, error >>

\* line 58: requests.post raises; nothing in __main__ catches it
CreateBatchRaises ==
    /\ pc = "create"
    /\ post_data' = create_data(oai_file_id)
    /\ creates' = creates + 1
    /\ error' = "ConnectionError"
    /\ pc' = "crashed"
    /\ UNCHANGED << main_vars, df, batch_file, oai_file_id, uploads,
                    status_code, batch, poll_vars, tail_vars >>

(* ---------------- __main__, lines 137-140: polling ---------------- *)

\* a poller that sleeps for the base interval before its first query
TrySleepsFirst ==
    /\ pc = "try"
    /\ IF "id" \in DOMAIN batch
       THEN /\ batch_id' = batch.id
            /\ poll_pc' = "attempt"
            /\ attempt_number' = 1
            /\ upcoming_sleep' = multiplier
            /\ idle_for' = idle_for + multiplier
            /\ clock' = clock + multiplier
            /\ waits' = waits + 1
            /\ pc' = "polling"
            /\ UNCHANGED caught
       ELSE /\ caught' = "KeyError"
            /\ pc' = "except"
            /\ UNCHANGED << batch_id, poll_pc, attempt_number, upcoming_sleep,
                            idle_for, clock, waits >>
    /\ UNCHANGED << main_vars, submit_vars, reply, outcome, reported, queries,
                    queried, slow, batch_details, process_calls, output_file,
                    results, error >>

\* a run that polls whatever batch.get('id') gives
TryPollsAnyway ==
    /\ pc = "try"
    /\ batch_id' = IF "id" \in DOMAIN batch THEN batch.id ELSE "None"
    /\ poll_pc' = "attempt"
    /\ attempt_number' = 1
    /\ pc' = "polling"
    /\ UNCHANGED << main_vars, submit_vars, clock, idle_for, upcoming_sleep,
                    reply, outcome, reported, queries, queried, waits, slow,
                    batch_details, caught, process_calls, output_file,
                    results, error >>

\* line 138 inside 'try': batch['id'] is read and the retrying call begins
\* (tenacity notes the start time and attempt number 1); a body without 'id'
\* raises KeyError into the 'except' of line 139
Try ==
    /\ pc = "try"
    /\ IF "id" \in DOMAIN batch
       THEN /\ batch_id' = batch.id
            /\ poll_pc' = "attempt"
            /\ attempt_number' = 1
            /\ pc' = "polling"
            /\ UNCHANGED caught
       ELSE /\ caught' = "KeyError"
            /\ pc' = "except"
            /\ UNCHANGED << batch_id, poll_pc, attempt_number >>
    /\ UNCHANGED << main_vars, submit_vars, clock, idle_for, upcoming_sleep,
                    reply, outcome, reported, queries, queried, waits, slow,
                    batch_details, process_calls, output_file, results, error >>

\* one attempt: wait_for_batch_completion queries the status of batch_id and
\* returns or raises; tenacity records the outcome and the time it came
Attempt ==
    /\ pc = "polling"
    /\ poll_pc = "attempt"
    /\ \E r \in Replies(batch_id), d \in {0, SlowQuery} :
          /\ d > 0 => slow < MaxSlow
          /\ slow' = IF d > 0 THEN slow + 1 ELSE slow
          /\ clock' = clock + d
          /\ reply' = r
          /\ outcome' = attempt(r)
          /\ reported' = reported \cup StatusOf(r)
    /\ queries' = queries + 1
    /\ queried' = queried \cup {batch_id}
    /\ poll_pc' = "decide"
    /\ UNCHANGED << main_vars, submit_vars, pc, batch_id, attempt_number,
                    idle_for, upcoming_sleep, waits, tail_vars, error >>

\* the attempt returned: the retrying call returns its result, which line
\* 138 assigns to batch_details
PollReturn ==
    /\ pc = "polling"
    /\ poll_pc = "decide"
    /\ outcome.kind = "result"
    /\ poll_pc' = "returned"
    /\ batch_details' = outcome.details
    /\ pc' = "check"
    /\ UNCHANGED << main_vars, submit_vars, batch_id, attempt_number, clock,
                    idle_for, upcoming_sleep, reply, outcome, reported,
                    queries, queried, waits, slow, caught, process_calls,
                    output_file, results, error >>

\* the attempt raised something the retry condition does not cover: it is
\* raised again, into the 'except' of line 139
PollRaise ==
    /\ pc = "polling"
    /\ poll_pc = "decide"
    /\ outcome.kind = "exception"
    /\ ~retry_if_exception_type(outcome.exc)
    /\ poll_pc' = "raised"
    /\ caught' = outcome.exc
    /\ pc' = "except"
    /\ UNCHANGED << main_vars, submit_vars, batch_id, attempt_number, clock,
                    idle_for, upcoming_sleep, reply, outcome, reported,
                    queries, queried, waits, slow, batch_details,
                    process_calls, output_file, results, error >>

\* the attempt is to be retried but the stop condition holds: tenacity
\* raises RetryError (reraise is left False)
PollTimeout ==
    /\ pc = "polling"
    /\ poll_pc = "decide"
    /\ outcome.kind = "exception"
    /\ retry_if_exception_type(outcome.exc)
    /\ stop_after_delay(clock)
    /\ poll_pc' = "raised"
    /\ caught' = "RetryError"
    /\ pc' = "except"
    /\ UNCHANGED << main_vars, submit_vars, batch_id, attempt_number, clock,
                    idle_for, upcoming_sleep, reply, outcome, reported,
                    queries, queried, waits, slow, batch_details,
                    process_calls, output_file, results, error >>

\* a retry that registers the batch again before it waits
PollSleepResubmit ==
    /\ pc = "polling"
    /\ poll_pc = "decide"
    /\ outcome.kind = "exception"
    /\ retry_if_exception_type(outcome.exc)
    /\ ~stop_after_delay(clock)
    /\ creates' = creates + 1
    /\ upcoming_sleep' = wait_exponential(attempt_number)
    /\ idle_for' = idle_for + upcoming_sleep'
    /\ clock' = clock + upcoming_sleep'
    /\ attempt_number' = attempt_number + 1
    /\ waits' = waits + 1
    /\ outcome' = NoOutcome
    /\ poll_pc' = "attempt"
    /\ UNCHANGED << main_vars, df, batch_file, oai_file_id, uploads,
                    post_data, status_code, batch, pc, batch_id, reply,
                    reported, queries, queried, slow, tail_vars, error >>

\* the attempt is to be retried and the stop condition does not hold:
\* tenacity computes the wait, sleeps for it and starts the next attempt
PollSleep ==
    /\ pc = "polling"
    /\ poll_pc = "decide"
    /\ outcome.kind = "exception"
    /\ retry_if_exception_type(outcome.exc)
    /\ ~stop_after_delay(clock)
    /\ upcoming_sleep' = wait_exponential(attempt_number)
    /\ idle_for' = idle_for + upcoming_sleep'
    /\ clock' = clock + upcoming_sleep'
    /\ attempt_number' = attempt_number + 1
    /\ waits' = waits + 1
    /\ outcome' = NoOutcome
    /\ poll_pc' = "attempt"
    /\ UNCHANGED << main_vars, submit_vars, pc, batch_id, reply, reported,
                    queries, queried, slow, tail_vars, error >>

\* lines 139-140: the exception is logged and dropped
Except ==
    /\ pc = "except"
    /\ pc' = "check"
    /\ UNCHANGED << main_vars, submit_vars, poll_vars, tail_vars, error >>

(* ---------------- __main__, lines 142-144: assembly ---------------- *)

\* a test that lets every terminal job through
status_is_terminal(details) == details.status \in {"completed", "failed"}

\* the test of line 142
status_is_completed(details) == details.status = "completed"

\* line 142 when batch_details was never assigned: NameError ends the run
CheckUnbound ==
    /\ pc = "check"
    /\ ~IsBound(batch_details)
    /\ error' = "NameError"
    /\ pc' = "crashed"
    /\ UNCHANGED << main_vars, submit_vars, poll_vars, tail_vars >>

\* line 142 on the job the poller returned
Check ==
    /\ pc = "check"
    /\ IsBound(batch_details)
    /\ pc' = IF status_is_completed(batch_details) THEN "process" ELSE "done"
    /\ UNCHANGED << main_vars, submit_vars, poll_vars, tail_vars, error >>

\* lines 143-144: process_responses downloads the output file and assembles
\* the mapping; what it raises ends the run
ProcessResponses ==
    /\ pc = "process"
    /\ process_calls' = process_calls + 1
    /\ \E file \in OutputFiles(batch_file.lines) :
          /\ output_file' = file
          /\ LET r == process_responses(file) IN
                IF r.kind = "result"
                THEN /\ results' = [mapping |-> r.details]
                     /\ pc' = "done"
                     /\ UNCHANGED error
                ELSE /\ error' = r.exc
                     /\ pc' = "crashed"
                     /\ UNCHANGED results
    /\ UNCHANGED << main_vars, submit_vars, poll_vars, batch_details, caught >>

\* line 85: the download raises
DownloadRaises ==
    /\ pc = "process"
    /\ process_calls' = process_calls + 1
    /\ error' = "APIError"
    /\ pc' = "crashed"
    /\ UNCHANGED << main_vars, submit_vars, poll_vars, batch_details, caught,
                    output_file, results >>

Next ==
    \/ PrepareData
    \/ CreateBatchFile
    \/ UploadOk
    \/ UploadRaises
    \/ CreateBatchPost
    \/ CreateBatchRaises
    \/ Try
    \/ Attempt
    \/ PollReturn
    \/ PollRaise
    \/ PollTimeout
    \/ PollSleep
    \/ Except
    \/ CheckUnbound
    \/ Check
    \/ ProcessResponses
    \/ DownloadRaises

Spec == Init /\ [][Next]_vars

\* the run keeps going: every call of the sequential program returns (a
\* status query is answered, a sleep ends), so a step that can be taken is
\* taken; polling does not read the input mapping, so one mapping is enough
OneInput ==
    /\ Init
    /\ ocr_data = << [id |-> "a", text |-> "t1"] >>
    /\ model = "gpt-3.5-turbo"

FairSpec == OneInput /\ [][Next]_vars /\ WF_vars(Next)

TypeOK ==
    /\ pc \in {"prepare_data", "create_batch_file", "upload", "create", "try",
               "polling", "except", "check", "process", "done", "crashed"}
    /\ poll_pc \in {"idle", "attempt", "decide", "returned", "raised"}
    /\ attempt_number \in 0..200
    /\ queries \in 0..200 /\ waits \in 0..200
    /\ upcoming_sleep \in 0..max_wait

(* ======================= properties ======================= *)

Terminal == {"completed", "failed"}

\* the last status query reported a status that is not terminal
NonTerminalReport ==
    /\ reply.kind = "body"
    /\ "status" \in DOMAIN reply.body
    /\ reply.body.status \notin Terminal

\* the last attempt raised something other than the not-ready signal
OtherException ==
    /\ outcome.kind = "exception"
    /\ outcome.exc # "BatchNotReadyException"

\* C1: wait_for_batch_completion returns only in an attempt whose status
\* query reported 'completed' or 'failed': what it returns is the job of the
\* last query made, with a terminal status, and as long as no query has
\* reported a terminal status it has not returned.
C1_ReturnsOnlyTerminal ==
    /\ poll_pc = "returned" =>
          /\ reply.kind = "body"
          /\ batch_details = reply.body
          /\ batch_details.status \in Terminal
    /\ reported \cap Terminal = {} => poll_pc # "returned"

\* the poller returned a failed job after reports that were not terminal
C1_Witness ==
    /\ poll_pc = "returned"
    /\ batch_details.status = "failed"
    /\ "in_progress" \in reported

\* C2 as stated: every status query that reports a value other than
\* 'completed' or 'failed' is followed by a wait and another query.
C2_AlwaysOneMoreCycle ==
    [][(poll_pc = "decide" /\ NonTerminalReport)
          => (poll_pc' = "attempt" /\ waits' = waits + 1)]_vars

\* C2 amended: a status query that reports a non-terminal value before 86400
\* seconds have passed since polling began is followed by a wait and then by
\* another status query for the same batch id; one that reports it at or
\* after 86400 seconds is followed by the timeout error, with no wait and no
\* query.
C2_OneMoreCycleWithinBudget ==
    [][/\ (poll_pc = "decide" /\ NonTerminalReport /\ clock < 86400)
            => /\ poll_pc' = "attempt"
               /\ waits' = waits + 1
               /\ clock' > clock
               /\ batch_id' = batch_id
               /\ queries' = queries
       /\ (poll_pc = "attempt" /\ waits > 0)
            => /\ poll_pc' = "decide"
               /\ queries' = queries + 1
               /\ queried' = {batch_id}
               /\ waits' = waits
       /\ (poll_pc = "decide" /\ NonTerminalReport /\ clock >= 86400)
            => /\ poll_pc' = "raised"
               /\ caught' = "RetryError"
               /\ waits' = waits
               /\ queries' = queries]_vars

\* a query that came after a wait has reported a non-terminal status
C2_Witness ==
    /\ poll_pc = "decide"
    /\ NonTerminalReport
    /\ waits >= 1
    /\ queries = waits + 1

\* C3: when every status query has reported a non-terminal value and the
\* waits add up to more than 86400 seconds, the poller raises the timeout
\* error (tenacity's RetryError, the spec's BatchTimeoutError) to its caller:
\* it neither waits again nor returns a value.
C3_TimeoutRaised ==
    [][(poll_pc = "decide" /\ NonTerminalReport /\ idle_for > 86400)
          => /\ poll_pc' = "raised"
             /\ caught' = "RetryError"
             /\ pc' = "except"
             /\ ~IsBound(batch_details')
             /\ waits' = waits]_vars

\* the poller has raised the timeout error after waiting more than the budget
C3_Witness ==
    /\ poll_pc = "raised"
    /\ caught = "RetryError"
    /\ idle_for > 86400
    /\ reported \cap Terminal = {}

\* C4: an exception of a status query other than BatchNotReadyException
\* leaves wait_for_batch_completion at once and as it is, and no wait and no
\* status query happens after the poller has raised.
C4_OtherExceptionsPropagate ==
    [][/\ (poll_pc = "decide" /\ OtherException)
            => /\ poll_pc' = "raised"
               /\ caught' = outcome.exc
               /\ queries' = queries
               /\ waits' = waits
       /\ poll_pc = "raised"
            => /\ poll_pc' = "raised"
               /\ queries' = queries
               /\ waits' = waits
               /\ clock' = clock]_vars

\* a transport failure of a retried query has left the poller
C4_Witness ==
    /\ poll_pc = "raised"
    /\ caught = "ConnectionError"
    /\ waits >= 1

\* C5: the first wait is the base interval of one second, each later wait is
\* twice the one before it or the ceiling if that is less, and no wait is
\* longer than 1800 seconds.
C5_BoundedExponentialBackoff ==
    [][waits' = waits + 1
          => /\ upcoming_sleep' <= 1800
             /\ upcoming_sleep' = IF waits = 0 THEN 1
                                  ELSE Min(2 * upcoming_sleep, 1800)
             /\ clock' = clock + upcoming_sleep'
             /\ idle_for' = idle_for + upcoming_sleep']_vars

\* the ceiling has been reached and waited for again
C5_Witness ==
    /\ upcoming_sleep = 1800
    /\ waits >= 13
    /\ idle_for = 2047 + 1800 * (waits - 11)

\* C6: process_responses is invoked only after the poller has returned a job
\* whose status is 'completed': never for a failed job, after a timeout or
\* after any other exception of polling.
C6_AssemblyOnlyWhenCompleted ==
    (pc = "process" \/ process_calls > 0)
        => /\ poll_pc = "returned"
           /\ IsBound(batch_details)
           /\ batch_details.status = "completed"
           /\ caught = NoError

\* result assembly has run for a completed job
C6_Witness ==
    /\ process_calls = 1
    /\ pc = "done"
    /\ IsBound(results)

\* C7 as stated: a failure raised during polling is the outcome of the run.
C7_PollingFailurePropagates ==
    (pc \in {"done", "crashed"} /\ poll_pc = "raised")
        => (pc = "crashed" /\ error = caught)

\* C8 as stated: a non-2xx answer to the batch-creation POST makes
\* registration fail with SubmissionError, and no body is returned as a batch.
C8_SubmissionErrorOnNon2xx ==
    (creates > 0 /\ pc # "create" /\ error # "ConnectionError"
       /\ status_code \notin 200..299)
        => (error = "SubmissionError" /\ ~IsBound(batch))

\* every line of the downloaded output file carries a message content
AllLinesHaveContent ==
    \A i \in DOMAIN output_file : HasContent(output_file[i].response)

\* C9 as stated: for an output file with one line per request, in any order,
\* process_responses returns a mapping whose keys are the custom_ids of the
\* requests of prepare_data, each mapped to the parse of the message content
\* of the line with that custom_id.
C9_CustomIdRoundTrip ==
    (process_calls > 0 /\ output_file # << >> /\ AllLinesHaveContent)
        => /\ IsBound(results)
           /\ DOMAIN results.mapping = {JStr(df[i].custom_id) : i \in DOMAIN df}
           /\ \A i \in DOMAIN output_file :
                 results.mapping[output_file[i].custom_id] =
                    json_repair_loads(output_file[i].response.body.choices[1].message.content)

\* C10 as stated: with output lines of which some have content that cannot
\* be extracted or repaired, process_responses still returns, with an entry
\* for every other line.
C10_BadLineDoesNotAbort ==
    (process_calls > 0 /\ output_file # << >>
       /\ \E i \in DOMAIN output_file :
             \/ ~HasContent(output_file[i].response)
             \/ output_file[i].response.body.choices[1].message.content = "no json")
        => /\ pc = "done"
           /\ IsBound(results)
           /\ \A i \in DOMAIN output_file :
                 HasContent(output_file[i].response)
                    => \E k \in DOMAIN results.mapping :
                          /\ k.v = output_file[i].custom_id.v
                          /\ results.mapping[k] =
                               json_repair_loads(output_file[i].response.body.choices[1].message.content)

\* the keys of the input mapping
InputKeys == {ocr_data[i].id : i \in DOMAIN ocr_data}

\* C11: prepare_data produces as many requests as there are input records,
\* every input key is the custom_id of exactly one request, and no request
\* has a custom_id that is not an input key.
C11_OneRequestPerRecord ==
    pc # "prepare_data"
        => /\ Len(df) = Cardinality(InputKeys)
           /\ \A k \in InputKeys :
                 Cardinality({j \in DOMAIN df : df[j].custom_id = k}) = 1
           /\ \A j \in DOMAIN df : df[j].custom_id \in InputKeys

\* the formatter has run on a mapping of two records
C11_Witness ==
    /\ pc = "create_batch_file"
    /\ Len(ocr_data) = 2
    /\ Len(df) = 2

\* C12: the request of a record has method 'POST', url
\* '/v1/chat/completions', the configured model, and as messages the system
\* message with the prompt followed by the user message with the text of
\* that same record and nothing else.
C12_RequestOfRecord ==
    pc # "prepare_data"
        => \A i \in DOMAIN ocr_data : \A j \in DOMAIN df :
              df[j].custom_id = ocr_data[i].id
                 => /\ df[j].method = "POST"
                    /\ df[j].url = "/v1/chat/completions"
                    /\ df[j].body.model = model
                    /\ Len(df[j].body.messages) = 2
                    /\ df[j].body.messages[1] =
                          [role |-> "system", content |-> system_prompt]
                    /\ df[j].body.messages[2] =
                          [role |-> "user", content |-> ocr_data[i].text]

\* the formatter has run on two records with different texts, with a model
\* that is not the default
C12_Witness ==
    /\ pc # "prepare_data"
    /\ Len(df) = 2
    /\ ocr_data[1].text # ocr_data[2].text
    /\ model = "m"
    /\ df[2].body.messages[2].content = ocr_data[2].text

\* C14: the stages run in a fixed order, each on the result of the one
\* before: the payload file is written before the upload starts; the
\* batch-creation request is sent only after the upload returned a file id,
\* with that id as input_file_id, endpoint '/v1/chat/completions' and
\* completion_window '24h'; a status query is made only after batch creation
\* returned, and every status query uses the id of the batch it returned.
C14_StagesInOrder ==
    /\ (uploads > 0 \/ pc = "upload")
          => /\ IsBound(batch_file)
             /\ Len(batch_file.lines) = Len(df)
             /\ \A i \in DOMAIN df :
                   batch_file.lines[i].custom_id.v = df[i].custom_id
    /\ (creates > 0 \/ pc = "create")
          => /\ uploads = 1
             /\ oai_file_id \in FileIds
    /\ creates > 0
          => post_data = [input_file_id |-> oai_file_id,
                          endpoint |-> "/v1/chat/completions",
                          completion_window |-> "24h"]
    /\ (queries > 0 \/ pc = "polling")
          => /\ creates = 1
             /\ IsBound(batch)
             /\ "id" \in DOMAIN batch
             /\ batch_id = batch.id
             /\ queried \subseteq {batch.id}

\* a status query has been made for the batch that creation returned
C14_Witness ==
    /\ queries >= 2
    /\ creates = 1
    /\ uploads = 1
    /\ queried = {"batch_1"}
    /\ post_data.input_file_id = "file-1"

\* C15: while wait_for_batch_completion runs, the only provider operation
\* is the status query for the given batch id: no step of polling changes
\* the number of uploads or of batch-creation requests, what was uploaded or
\* posted, or the id polled; a run has at most one upload and one
\* batch-creation request.
C15_PollingOnlyReads ==
    [][/\ pc = "polling"
            => /\ uploads' = uploads
               /\ creates' = creates
               /\ post_data' = post_data
               /\ oai_file_id' = oai_file_id
               /\ batch_file' = batch_file
               /\ batch' = batch
               /\ batch_id' = batch_id
               /\ queried' \subseteq {batch_id}
       /\ uploads' <= 1
       /\ creates' <= 1]_vars

\* polling has retried several times after one upload and one creation
C15_Witness ==
    /\ pc = "polling"
    /\ waits >= 3
    /\ queries >= 3
    /\ uploads = 1
    /\ creates = 1

\* C16: the poller always ends, by returning a terminal job or by raising.
\* The budget is tested after a not-ready attempt and before the next wait:
\* no wait starts once 86400 seconds have passed since polling began, and
\* every status query starts less than 86400 + 1800 seconds after it began.
C16_PollerTerminates ==
    /\ [][/\ waits' = waits + 1 => (poll_pc = "decide" /\ clock < 86400)
          /\ queries' = queries + 1 => clock < 86400 + 1800]_vars
    /\ (pc = "polling") ~> (poll_pc \in {"returned", "raised"})

\* the poller has returned from a query that began after the budget was spent
C16_Witness ==
    /\ poll_pc = "returned"
    /\ waits >= 1
    /\ clock - slow * SlowQuery >= 86400

\* the last status query reported a terminal status
TerminalReport ==
    /\ reply.kind = "body"
    /\ "status" \in DOMAIN reply.body
    /\ reply.body.status \in Terminal

\* C17: status queries and waits alternate strictly, starting with a query:
\* a query is made only when as many waits as queries have passed, a wait
\* only after a query that has not been waited for, and none after a query
\* that reported a terminal status; so the queries made are the waits or one
\* more, and a job that is terminal at the first query is returned after
\* one query and no wait.
C17_QueriesAndWaitsAlternate ==
    /\ [][/\ queries' = queries + 1 => (queries = waits /\ waits' = waits)
          /\ waits' = waits + 1 => (queries = waits + 1 /\ queries' = queries)
          /\ queries' \in {queries, queries + 1}
          /\ waits' \in {waits, waits + 1}
          /\ (poll_pc = "decide" /\ TerminalReport)
                => (waits' = waits /\ poll_pc' = "returned")
          /\ poll_pc = "returned"
                => (waits' = waits /\ queries' = queries)]_vars
    /\ [](/\ queries \in {waits, waits + 1}
          /\ queries = 0 => waits = 0
          /\ (poll_pc = "returned" /\ reported \subseteq Terminal)
                => (queries = 1 /\ waits = 0))

\* a job that was terminal at the first query has been returned
C17_Witness ==
    /\ poll_pc = "returned"
    /\ reported \subseteq Terminal
    /\ queries = 1
    /\ waits = 0
    /\ clock \in {0, SlowQuery}

\* no batch was registered: creation has not returned, or what it returned
\* has no 'id'
NotRegistered == ~IsBound(batch) \/ "id" \notin DOMAIN batch

\* C18: polling is never started for a batch that was not registered: when
\* the upload or the batch creation raised, or creation returned a body
\* without 'id', no status query is made and result assembly is not invoked.
C18_NoPollingWithoutBatch ==
    NotRegistered
        => /\ queries = 0
           /\ queried = {}
           /\ poll_pc = "idle"
           /\ pc \notin {"polling", "process"}
           /\ process_calls = 0
           /\ ~IsBound(results)

\* a run has ended after creation returned an error body without 'id'
C18_Witness ==
    /\ pc = "crashed"
    /\ IsBound(batch)
    /\ "id" \notin DOMAIN batch
    /\ status_code = 401
    /\ error = "NameError"
====
